---- MODULE Spec2Model ----
(***************************************************************************)
(* Agent-run monitoring and PR detection of backend/api_routes.py:         *)
(* the ConnectionManager registry and broadcaster, the websocket handler,  *)
(* the monitor task monitor_agent_run_for_pr and the log extractor.        *)
(*                                                                         *)
(* Every coroutine runs on one asyncio event loop, so an action is the     *)
(* code a task runs between two suspension points.  The agent client is    *)
(* synchronous (requests), so a status or log fetch never suspends; the    *)
(* suspension points are `await websocket.send_text` inside the broadcast  *)
(* and `await asyncio.sleep(10)` in the monitor.                           *)
(***************************************************************************)
EXTENDS Integers, Sequences, FiniteSets, TLC

\* ---------------------------------------------------------------- bounds
NumConns == 2
MaxMonitors == 2

\* ------------------------------------------------------ program constants
max_attempts == 60

Conns == 1..NumConns

\* Subscription keys an observer may name: (projectId, requirementId).
SubKeys == {<<"p1", "q1">>, <<"p1", "q2">>, <<"p2", "q1">>}
RunIds == {"r1", "r2"}

\* ------------------------------------------------------------- log lines
\* A log line is a sequence of tokens, each token standing for the literal
\* text it spells.  "/" and GH are the only tokens that contain a slash and
\* the digit tokens are the only ones that contain a digit.  The marker
\* phrases "pull request" and "implementation plan" occur, in any case, only
\* as whole tokens, and " " and "\t" are the tokens made of whitespace only.
GH == "https://github.com"
Digits == {"4", "2"}

lower(t) ==
    IF t = "Pull Request" THEN "pull request"
    ELSE IF t \in {"Implementation Plan", "IMPLEMENTATION PLAN"} THEN "implementation plan"
    ELSE t

Contains(line, toks) == \E i \in 1..Len(line) : line[i] \in toks

NonSlash(t) == t # "/" /\ t # GH

\* End of the maximal run of tokens satisfying the class, starting at i
\* (i - 1 when the run is empty).
RECURSIVE RunEnd(_, _, _)
RunEnd(line, i, digitsOnly) ==
    IF i <= Len(line) /\ (IF digitsOnly THEN line[i] \in Digits ELSE NonSlash(line[i]))
    THEN RunEnd(line, i + 1, digitsOnly)
    ELSE i - 1

At(line, i) == IF i >= 1 /\ i <= Len(line) THEN line[i] ELSE ""

\* re.search(r'https://github\.com/[^/]+/[^/]+/pull/\d+') anchored at token i:
\* the index of the last matched token, or 0 when there is no match at i.
MatchAt(line, i) ==
    IF At(line, i) # GH \/ At(line, i + 1) # "/" THEN 0
    ELSE LET o == RunEnd(line, i + 2, FALSE) IN
         IF o < i + 2 \/ At(line, o + 1) # "/" THEN 0
         ELSE LET r == RunEnd(line, o + 2, FALSE) IN
              IF r < o + 2 \/ At(line, r + 1) # "/" THEN 0
              ELSE IF At(line, r + 2) # "pull" \/ At(line, r + 3) # "/" THEN 0
              ELSE LET d == RunEnd(line, r + 4, TRUE) IN
                   IF d < r + 4 THEN 0 ELSE d

\* pr_url_match giving back the whole log entry in place of group(0).
pr_url_match_wholeLine(line) ==
    IF \E i \in 1..Len(line) : MatchAt(line, i) # 0 THEN <<line>> ELSE <<>>

\* The leftmost match of the pattern in the line: <<url>> or <<>> (no match).
pr_url_match(line) ==
    LET starts == {i \in 1..Len(line) : MatchAt(line, i) # 0} IN
    IF starts = {} THEN <<>>
    ELSE LET s == CHOOSE i \in starts : \A j \in starts : i <= j
         IN  <<SubSeq(line, s, MatchAt(line, s))>>

\* extract_pr_url_from_logs: Optional[str] as a sequence of length <= 1,
\* <<>> for None and <<url>> for a URL.
RECURSIVE extract_pr_url_from_logs(_)
extract_pr_url_from_logs(logs) ==
    IF logs = <<>> THEN <<>>
    ELSE LET log_entry == Head(logs) IN
         IF /\ \E i \in 1..Len(log_entry) : lower(log_entry[i]) = "pull request"
            /\ Contains(log_entry, {GH})
            /\ pr_url_match(log_entry) # <<>>
         THEN pr_url_match(log_entry)
         ELSE extract_pr_url_from_logs(Tail(logs))

LineOk == <<"Created ", "Pull Request", " ", GH, "/", "acme", "/", "app", "/", "pull", "/", "4", "2", " done">>
LineOk2 == <<"pull request", " ", GH, "/", "acme", "/", "lib", "/", "pull", "/", "2">>
LineNoMarker == <<"see ", GH, "/", "acme", "/", "app", "/", "pull", "/", "4">>
LineNoUrl == <<"opening ", "pull request", " soon">>
LineIssue == <<"pull request", " ", GH, "/", "acme", "/", "app", "/", "issues", "/", "4">>

\* The first page of logs an agent run may return.
LogSamples ==
    { <<>>,
      <<LineNoUrl, LineOk>>,
      <<LineNoMarker, LineIssue>>,
      <<LineIssue, LineOk2, LineOk>> }

\* ------------------------------------------------- extract_plan_from_logs
Whitespace == {" ", "\t"}

\* str.strip(): the line without its leading and trailing whitespace.
RECURSIVE lstrip(_)
lstrip(line) ==
    IF line # <<>> /\ Head(line) \in Whitespace THEN lstrip(Tail(line)) ELSE line

RECURSIVE rstrip(_)
rstrip(line) ==
    IF line # <<>> /\ line[Len(line)] \in Whitespace
    THEN rstrip(SubSeq(line, 1, Len(line) - 1))
    ELSE line

strip(line) == rstrip(lstrip(line))

\* sep.join(lines)
RECURSIVE join(_, _)
join(sep, lines) ==
    IF lines = <<>> THEN <<>>
    ELSE IF Len(lines) = 1 THEN lines[1]
    ELSE lines[1] \o <<sep>> \o join(sep, Tail(lines))

\* The default plan template, a heading and four phases.
DefaultPlan ==
    <<"# Implementation Plan", "\n", "\n",
      "## Phase 1: Analysis and Setup", "\n", "- Analyze ...", "\n", "\n",
      "## Phase 2: Core Implementation", "\n", "- Implement ...", "\n", "\n",
      "## Phase 3: Integration and Testing", "\n", "- Integrate ...", "\n", "\n",
      "## Phase 4: Documentation and Deployment", "\n", "- Update ...">>

\* plan_scan without the break at the blank line.
RECURSIVE plan_scan_noBreak(_, _, _)
plan_scan_noBreak(logs, in_plan_section, plan_content) ==
    IF logs = <<>> THEN plan_content
    ELSE LET log_entry == Head(logs) IN
         IF \E i \in 1..Len(log_entry) : lower(log_entry[i]) = "implementation plan"
         THEN plan_scan_noBreak(Tail(logs), TRUE, plan_content)
         ELSE IF in_plan_section /\ strip(log_entry) # <<>>
         THEN plan_scan_noBreak(Tail(logs), in_plan_section, Append(plan_content, log_entry))
         ELSE plan_scan_noBreak(Tail(logs), in_plan_section, plan_content)

\* The for loop of extract_plan_from_logs over the entries that are left.
RECURSIVE plan_scan(_, _, _)
plan_scan(logs, in_plan_section, plan_content) ==
    IF logs = <<>> THEN plan_content
    ELSE LET log_entry == Head(logs) IN
         IF \E i \in 1..Len(log_entry) : lower(log_entry[i]) = "implementation plan"
         THEN plan_scan(Tail(logs), TRUE, plan_content)
         ELSE IF in_plan_section /\ strip(log_entry) # <<>>
         THEN plan_scan(Tail(logs), in_plan_section, Append(plan_content, log_entry))
         ELSE IF in_plan_section /\ ~(strip(log_entry) # <<>>)
         THEN plan_content
         ELSE plan_scan(Tail(logs), in_plan_section, plan_content)

\* PlanResult without the fallback to the template.
PlanResult_joinAlways(plan_content) == join("\n", plan_content)

\* if plan_content: return "\n".join(plan_content) / else: the template
PlanResult(plan_content) ==
    IF plan_content # <<>> THEN join("\n", plan_content) ELSE DefaultPlan

extract_plan_from_logs(logs) == PlanResult(plan_scan(logs, FALSE, <<>>))

\* ------------------------------------------- inputs of the log extractors
MaxLogs == 3
MaxPlanLogs == 5

LineShort == <<"Pull Request", " ", GH, "/", "acme", "/", "pull", "/", "4">>
LineTwo ==
    <<"pull request", " ", GH, "/", "acme", "/", "issues", "/", "4", " ",
      GH, "/", "acme", "/", "lib", "/", "pull", "/", "2", "4", "x">>

LineMarker == <<"## ", "Implementation Plan">>
LineMarkerCaps == <<"IMPLEMENTATION PLAN", " follows">>
LineStep == <<"1. add the endpoint">>
LineBlank == <<>>
LineSpaces == <<" ", "\t">>

PrLines == {LineOk, LineOk2, LineNoMarker, LineNoUrl, LineIssue, LineShort, LineTwo}
PlanLines == {LineMarker, LineMarkerCaps, LineStep, LineOk, LineBlank, LineSpaces}

SeqsUpTo(S, n) == UNION {[1..k -> S] : k \in 0..n}

LogInputs == SeqsUpTo(PrLines, MaxLogs) \cup SeqsUpTo(PlanLines, MaxPlanLogs)

\* ------------------------------------------------- ConnectionManager state
VARIABLES
    environ,             \* os.environ: which of CODEGEN_ORG_ID, CODEGEN_TOKEN are set
    codegen_client,      \* the module global: "None" or "client"
    active_connections,  \* manager.active_connections (a list without duplicates)
    pr_subscriptions,    \* manager.pr_subscriptions: the dict's entry array, in insertion order
    conn_state,          \* each websocket handler: "new", "open", "closed", "crashed"
    monitors,            \* the tasks created by asyncio.create_task, in creation order
    received             \* what each peer has received: how many messages, and the last one

\* --------------------------------------------- calls outside the monitoring
VARIABLES
    ext_logs,            \* the log entries handed to the extractors
    ext_pr_url,          \* extract_pr_url_from_logs(ext_logs), once called
    ext_plan,            \* extract_plan_from_logs(ext_logs), once called
    plan_request,        \* one POST .../plan request: where create_plan stands
    cli_client           \* codegen_client.py run as a script: its client and calls

calls == <<ext_logs, ext_pr_url, ext_plan, plan_request, cli_client>>

vars == <<environ, codegen_client, active_connections, pr_subscriptions,
          conn_state, monitors, received, calls>>

\* A function that has not been called, and one that returned v.
NotCalled == [called |-> FALSE, value |-> <<>>]

Returned(v) == [called |-> TRUE, value |-> v]

\* --------------------------------------------------- the dict of the registry
\* A Python dict keeps its entries in insertion order; `del` leaves a dummy
\* in the entry array, assignment to a present key replaces the value in
\* place and assignment to an absent key appends.  The array is compacted
\* only when its 5 usable slots are exhausted, which NumConns < 5 insertions
\* never do (a connection inserts its key at most once).
Dummy == [cid |-> 0, project_id |-> "", requirement_id |-> "", agent_run_id |-> ""]

Entry(c, p, q, r) == [cid |-> c, project_id |-> p, requirement_id |-> q, agent_run_id |-> r]

HasKey(d, c) == \E i \in 1..Len(d) : d[i].cid = c

IndexOf(d, c) == CHOOSE i \in 1..Len(d) : d[i].cid = c

ma_used(d) == Cardinality({i \in 1..Len(d) : d[i].cid # 0})

\* DictSet that appends also when the key is present.
DictSet_append(d, e) == Append(d, e)

DictSet(d, e) == IF HasKey(d, e.cid) THEN [d EXCEPT ![IndexOf(d, e.cid)] = e] ELSE Append(d, e)

DictDel(d, c) == [d EXCEPT ![IndexOf(d, c)] = Dummy]

\* iter(d.items()) and its __next__ (CPython >= 3.8): the size is compared
\* first, then dummies are skipped, and an entry found after `len` items
\* were produced is an error too.
NoIter == [di_used |-> 0, di_pos |-> 0, len |-> 0]

NewIter(d) == [di_used |-> ma_used(d), di_pos |-> 1, len |-> ma_used(d)]

dictiter_next(d, it) ==
    IF it.di_used # ma_used(d) THEN [kind |-> "RuntimeError", idx |-> 0, it |-> it]
    ELSE LET live == {i \in it.di_pos..Len(d) : d[i].cid # 0} IN
         IF live = {} THEN [kind |-> "StopIteration", idx |-> 0, it |-> it]
         ELSE IF it.len = 0 THEN [kind |-> "RuntimeError", idx |-> 0, it |-> it]
         ELSE LET i == CHOOSE k \in live : \A j \in live : k <= j
              IN  [kind |-> "item", idx |-> i,
                   it |-> [di_used |-> it.di_used, di_pos |-> i + 1, len |-> it.len - 1]]

\* ------------------------------------------------------------- PR events
CreatedEvent(url) == [status |-> "created", prUrl |-> url, createdAt |-> "now"]

\* FailedEvent that carries an empty prUrl besides the error.
FailedEvent_withUrl(err) ==
    [status |-> "failed", error |-> err, prUrl |-> "", createdAt |-> "now"]

FailedEvent(err) == [status |-> "failed", error |-> err, createdAt |-> "now"]

NoEvent == [status |-> "none"]

ErrNoPr == "Implementation completed but no PR was created"
ErrFailed == "Implementation failed"
ErrTimeout == "Monitoring timeout - PR status unknown"

\* json.dumps({"type": ..., "projectId": ..., "requirementId": ..., **event_data})
Message(p, q, ev) ==
    IF ev.status = "created"
    THEN [type |-> "pr_status_update", projectId |-> p, requirementId |-> q,
          status |-> ev.status, prUrl |-> ev.prUrl, createdAt |-> ev.createdAt]
    ELSE [type |-> "pr_status_update", projectId |-> p, requirementId |-> q,
          status |-> ev.status, error |-> ev.error, createdAt |-> ev.createdAt]

NoMessage == [type |-> "none"]

\* ------------------------------------------------------- broadcast_pr_event
SubscriptionMatches(e, p, q) == e.project_id = p /\ e.requirement_id = q

\* The loop of broadcast_pr_event from the iterator's position up to its next
\* suspension: "send" (awaiting send_text to target), "return" (the dict is
\* exhausted) or "raise" (the iterator raised RuntimeError).
RECURSIVE broadcast_scan(_, _, _, _, _)
broadcast_scan(d, act, it, p, q) ==
    LET r == dictiter_next(d, it) IN
    IF r.kind = "RuntimeError" THEN [kind |-> "raise", target |-> 0, it |-> NoIter]
    ELSE IF r.kind = "StopIteration" THEN [kind |-> "return", target |-> 0, it |-> NoIter]
    ELSE IF SubscriptionMatches(d[r.idx], p, q) /\ d[r.idx].cid \in act
         THEN [kind |-> "send", target |-> d[r.idx].cid, it |-> r.it]
         ELSE broadcast_scan(d, act, r.it, p, q)

\* The connections registered under the key, the ones a broadcast is for.
Subscribers(d, act, p, q) ==
    {d[i].cid : i \in {k \in 1..Len(d) : d[k].cid # 0 /\ d[k].cid \in act
                                         /\ d[k].project_id = p /\ d[k].requirement_id = q}}

\* ------------------------------------------------------------ agent client
\* Optional[str] arguments: "None", the empty string or a value.  environ
\* says which of the two variables are set (to a non-empty value).
NotStr(v) == v \in {"None", ""}

OrElse(a, b) == IF NotStr(a) THEN b ELSE a

EnvGet(env, name) ==
    IF name = "CODEGEN_ORG_ID" THEN (IF env.org_id THEN "env-org" ELSE "None")
    ELSE (IF env.token THEN "env-token" ELSE "None")

ValueError == [raised |-> TRUE, org_id |-> "None", token |-> "None", headers |-> <<>>]

\* init_checks with the test of the token left out.
init_checks_orgOnly(self_org_id, self_token) ==
    IF NotStr(self_org_id) THEN ValueError
    ELSE [raised |-> FALSE, org_id |-> self_org_id, token |-> self_token,
          headers |-> <<"Bearer ", self_token>>]

\* if not self.org_id: raise / if not self.token: raise / self.headers = ...
init_checks(self_org_id, self_token) ==
    IF NotStr(self_org_id) THEN ValueError
    ELSE IF NotStr(self_token) THEN ValueError
    ELSE [raised |-> FALSE, org_id |-> self_org_id, token |-> self_token,
          headers |-> <<"Bearer ", self_token>>]

\* CodegenClient.__init__(org_id, token): the object, or ValueError.  It
\* issues no request.
CodegenClient__init__(org_id, token, env) ==
    init_checks(OrElse(org_id, EnvGet(env, "CODEGEN_ORG_ID")),
                OrElse(token, EnvGet(env, "CODEGEN_TOKEN")))

\* CodegenClient() as api_routes calls it, with neither argument.
CodegenClient(env) ==
    IF CodegenClient__init__("None", "None", env).raised THEN "ValueError" ELSE "client"

\* get_codegen_client: the global is built on first use and kept.
get_codegen_client(cc, env) == IF cc = "None" THEN CodegenClient(env) ELSE cc

\* What one poll cycle can get from the agent service.  fetch_ok: get_agent_run
\* returned; status: agent_run.get("status"), "None" when the key is absent,
\* "cancelled" standing for any unrecognised string; logs_ok: whether
\* get_agent_run_logs returns; logs: the log of the run as the service holds
\* it, of which a fetch returns one page.
Statuses == {"pending", "running", "completed", "failed", "cancelled", "None"}

Outcome(f, s, l, logs) == [fetch_ok |-> f, status |-> s, logs_ok |-> l, logs |-> logs]

\* def get_agent_run_logs(self, agent_run_id, page: int = 1, size: int = 10)
default_page == 1
default_size == 10

\* The page the service returns for params page and size.
get_agent_run_logs(run_log, page, size) ==
    SubSeq(run_log, (page - 1) * size + 1,
           IF page * size < Len(run_log) THEN page * size ELSE Len(run_log))

\* A log of two pages: the pull-request line is the first line of page 2.
LogTwoPages == [i \in 1..(default_size + 1) |-> IF i <= default_size THEN LineNoUrl ELSE LineOk]

PollOutcomes ==
    {Outcome(FALSE, "None", TRUE, <<>>)}
    \cup {Outcome(TRUE, s, TRUE, <<>>) : s \in Statuses \ {"completed"}}
    \cup {Outcome(TRUE, "completed", FALSE, <<>>)}
    \cup {Outcome(TRUE, "completed", TRUE, logs) : logs \in LogSamples \cup {LogTwoPages}}

\* The service answers and run r has already ended: r1 completed with a
\* pull request in its logs, every other run failed.
FinishedOutcomes(r) ==
    IF r = "r1" THEN {Outcome(TRUE, "completed", TRUE, <<LineNoUrl, LineOk>>)}
    ELSE {Outcome(TRUE, "failed", TRUE, <<>>)}

\* ------------------------------------------------- monitor_agent_run_for_pr
\* pc: "start" (task created, not yet run), "sleep" (in asyncio.sleep(10),
\* attempt += 1 follows it), "send" (inside broadcast_pr_event, awaiting
\* send_text to target), "done" (returned), "crashed" (ended by an exception).
\* "break" is the position right after a `break`, never a state at rest.
\* The fields from emitted on record what the task has done so far: the
\* number of broadcast_pr_event calls and the event of the latest one, the
\* number of status fetches, the answers of the latest poll cycle, the
\* connections the broadcast in flight is for and has reached, and the
\* connection whose subscribe created the task, the pages of logs the task has
\* asked for, and whether a log fetch of the task has raised.
NewMonitor(r, p, q, c) ==
    [agent_run_id |-> r, project_id |-> p, requirement_id |-> q,
     pc |-> "start", attempt |-> 0, inloop |-> FALSE, it |-> NoIter, target |-> 0,
     emitted |-> 0, event |-> NoEvent, polls |-> 0, logs_fetched |-> FALSE,
     last |-> Outcome(FALSE, "None", TRUE, <<>>),
     allNonTerm |-> TRUE, allErr |-> TRUE, cleanPrefix |-> TRUE, repolled |-> FALSE,
     stable |-> {}, delivered |-> {}, failed_to |-> {}, owner |-> c, pages |-> {}, logs_failed |-> FALSE]

\* `if pr_url:` on an Optional[str]
Truthy(opt) == opt # <<>> /\ opt[1] # <<>>

\* OnException without the except clause: the exception ends the task.
OnException_uncaught(mon) == [mon EXCEPT !.pc = "crashed", !.it = NoIter, !.target = 0]

\* except Exception: log, await asyncio.sleep(10), attempt += 1
OnException(mon) == [mon EXCEPT !.pc = "sleep", !.it = NoIter, !.target = 0]

\* Where the task stands once the broadcast loop reached res.
Settle(mon, res) ==
    IF res.kind = "send"
    THEN [mon EXCEPT !.pc = "send", !.target = res.target, !.it = res.it]
    ELSE IF res.kind = "raise"
    THEN IF mon.inloop THEN OnException(mon)
         ELSE [mon EXCEPT !.pc = "crashed", !.it = NoIter, !.target = 0]
    ELSE [mon EXCEPT !.pc = IF mon.inloop THEN "break" ELSE "done",
                     !.it = NoIter, !.target = 0]

\* await manager.broadcast_pr_event(project_id, requirement_id, ev), from the
\* call up to its first suspension.
broadcast_pr_event(mon, ev, inloop, d, act) ==
    Settle([mon EXCEPT !.inloop = inloop, !.emitted = @ + 1, !.event = ev,
                       !.stable = Subscribers(d, act, mon.project_id, mon.requirement_id),
                       !.delivered = {}, !.failed_to = {}],
           broadcast_scan(d, act, NewIter(d), mon.project_id, mon.requirement_id))

\* if attempt >= max_attempts: broadcast the timeout event
AfterLoop(mon, d, act) ==
    IF mon.attempt >= max_attempts
    THEN broadcast_pr_event(mon, FailedEvent(ErrTimeout), FALSE, d, act)
    ELSE [mon EXCEPT !.pc = "done"]

AfterBreak(mon, d, act) == IF mon.pc = "break" THEN AfterLoop(mon, d, act) ELSE mon

\* StatusBranch with every status other than completed taken as failed.
StatusBranch_elseFailed(status) ==
    IF status = "completed" THEN "completed" ELSE "failed"

\* The if / elif on agent_run.get("status") and what falls through it.
StatusBranch(status) ==
    IF status = "completed" THEN "completed"
    ELSE IF status = "failed" THEN "failed"
    ELSE "wait"

\* monitor_logs reading every page of the log.
monitor_logs_allPages(run_log) == run_log

\* logs = client.get_agent_run_logs(agent_run_id); logs.get("logs", [])
monitor_logs(run_log) == get_agent_run_logs(run_log, default_page, default_size)

IsNonTerminal(o) == o.fetch_ok /\ o.status \notin {"completed", "failed"}

\* PollCycle with the logs fetched in every cycle, before the status is
\* looked at.
PollCycle_logsEveryCycle(mon, o, d, act) ==
    LET m2 == [mon EXCEPT !.polls = @ + 1,
                          !.repolled = @ \/ mon.emitted > 0,
                          !.last = o,
                          !.logs_fetched = TRUE,
                          !.pages = @ \cup {default_page},
                          !.cleanPrefix = mon.allNonTerm,
                          !.allNonTerm = @ /\ IsNonTerminal(o),
                          !.allErr = @ /\ ~o.fetch_ok]
    IN
    IF ~o.fetch_ok THEN OnException([m2 EXCEPT !.logs_fetched = FALSE])
    ELSE IF ~o.logs_ok THEN OnException([m2 EXCEPT !.logs_failed = TRUE])
    ELSE IF StatusBranch(o.status) = "completed"
    THEN LET pr_url == extract_pr_url_from_logs(monitor_logs(o.logs)) IN
         IF Truthy(pr_url)
         THEN broadcast_pr_event(m2, CreatedEvent(pr_url[1]), TRUE, d, act)
         ELSE broadcast_pr_event(m2, FailedEvent(ErrNoPr), TRUE, d, act)
    ELSE IF StatusBranch(o.status) = "failed"
    THEN broadcast_pr_event(m2, FailedEvent(ErrFailed), TRUE, d, act)
    ELSE [m2 EXCEPT !.pc = "sleep"]

\* One pass through the body of the while loop with the answers o.
PollCycle(mon, o, d, act) ==
    LET m1 == [mon EXCEPT !.polls = @ + 1,
                          !.repolled = @ \/ mon.emitted > 0,
                          !.last = o,
                          !.logs_fetched = FALSE,
                          !.cleanPrefix = mon.allNonTerm,
                          !.allNonTerm = @ /\ IsNonTerminal(o),
                          !.allErr = @ /\ ~o.fetch_ok]
        m2 == [m1 EXCEPT !.logs_fetched = TRUE, !.pages = @ \cup {default_page}]
    IN
    IF ~o.fetch_ok THEN OnException(m1)
    ELSE IF StatusBranch(o.status) = "completed"
    THEN IF ~o.logs_ok THEN OnException([m2 EXCEPT !.logs_failed = TRUE])
         ELSE LET pr_url == extract_pr_url_from_logs(monitor_logs(o.logs)) IN
              IF Truthy(pr_url)
              THEN broadcast_pr_event(m2, CreatedEvent(pr_url[1]), TRUE, d, act)
              ELSE broadcast_pr_event(m2, FailedEvent(ErrNoPr), TRUE, d, act)
    ELSE IF StatusBranch(o.status) = "failed"
    THEN broadcast_pr_event(m1, FailedEvent(ErrFailed), TRUE, d, act)
    ELSE [m1 EXCEPT !.pc = "sleep"]

\* while attempt < max_attempts: ... ; then the timeout check.
LoopHead(mon, o, d, act) ==
    IF mon.attempt < max_attempts
    THEN AfterBreak(PollCycle(mon, o, d, act), d, act)
    ELSE AfterLoop(mon, d, act)

\* A change of connection c's registry entry ends c's standing as a
\* subscriber of every broadcast in flight, unless the key stays (p, q).
Unstable(ms, c, p, q) ==
    [i \in 1..Len(ms) |->
        IF ms[i].pc = "send" /\ ~(ms[i].project_id = p /\ ms[i].requirement_id = q)
        THEN [ms[i] EXCEPT !.stable = @ \ {c}]
        ELSE ms[i]]

\* ----------------------------------------------------------------- actions
\* No plan request has been received; the client module was not run as a script.
\* polls counts the get_agent_run calls of the request, logs_fetched tells
\* whether get_agent_run_logs was called and logs is what it handed back.
NoPlan == [called |-> FALSE, value |-> [content |-> <<>>, status |-> "none"]]

NoRequest ==
    [pc |-> "idle", waited |-> 0, requests |-> 0, failed |-> FALSE, retried |-> FALSE,
     status |-> "None", plan |-> NoPlan, polls |-> 0, logs_fetched |-> FALSE, logs |-> <<>>]

NoScript ==
    [state |-> "none", arg_org_id |-> "None", arg_token |-> "None",
     org_id |-> "None", token |-> "None", requests |-> 0]

\* The module as imported: no client yet, an empty ConnectionManager.
ServerInit ==
    /\ codegen_client = "None"
    /\ active_connections = {}
    /\ pr_subscriptions = <<>>
    /\ conn_state = [c \in Conns |-> "new"]
    /\ monitors = <<>>
    /\ received = [c \in Conns |-> [n |-> 0, last |-> NoMessage]]

Init ==
    /\ environ \in [org_id : BOOLEAN, token : BOOLEAN]
    /\ ServerInit
    /\ ext_logs = <<>> /\ ext_pr_url = NotCalled /\ ext_plan = NotCalled
    /\ plan_request = NoRequest
    /\ cli_client = NoScript

\* manager.connect: accept and append to active_connections.
Connect(c) ==
    /\ conn_state[c] = "new"
    /\ conn_state' = [conn_state EXCEPT ![c] = "open"]
    /\ active_connections' = active_connections \cup {c}
    /\ UNCHANGED <<environ, codegen_client, pr_subscriptions, monitors, received, calls>>

\* A subscribe_pr_events message: upsert the subscription, create the task.
\* cap bounds the number of tasks ever created.
Subscribe(c, cap) ==
    /\ conn_state[c] = "open"
    /\ Len(monitors) < cap
    /\ \E key \in SubKeys, r \in RunIds :
        /\ pr_subscriptions' = DictSet(pr_subscriptions, Entry(c, key[1], key[2], r))
        /\ monitors' = Append(Unstable(monitors, c, key[1], key[2]),
                              NewMonitor(r, key[1], key[2], c))
    /\ UNCHANGED <<environ, codegen_client, active_connections, conn_state, received, calls>>

\* A frame json.loads rejects, or JSON that is no object: the exception is
\* not WebSocketDisconnect, so the handler ends without manager.disconnect.
Malformed(c) ==
    /\ conn_state[c] = "open"
    /\ conn_state' = [conn_state EXCEPT ![c] = "crashed"]
    /\ UNCHANGED <<environ, codegen_client, active_connections, pr_subscriptions,
                   monitors, received, calls>>

\* WebSocketDisconnect: manager.disconnect(websocket, connection_id).
Disconnect(c) ==
    /\ conn_state[c] = "open"
    /\ conn_state' = [conn_state EXCEPT ![c] = "closed"]
    /\ active_connections' = active_connections \ {c}
    /\ pr_subscriptions' = IF HasKey(pr_subscriptions, c)
                           THEN DictDel(pr_subscriptions, c) ELSE pr_subscriptions
    /\ monitors' = Unstable(monitors, c, "", "")
    /\ UNCHANGED <<environ, codegen_client, received, calls>>

\* The task's first run: get_codegen_client(), then the loop up to the first
\* suspension.  A ValueError from the constructor ends the task.
MonitorStart(m, outcomes) ==
    /\ monitors[m].pc = "start"
    /\ LET cc == get_codegen_client(codegen_client, environ) IN
       IF cc = "ValueError"
       THEN /\ monitors' = [monitors EXCEPT ![m].pc = "crashed"]
            /\ UNCHANGED codegen_client
       ELSE /\ codegen_client' = cc
            /\ \E o \in outcomes :
                monitors' = [monitors EXCEPT
                    ![m] = LoopHead(@, o, pr_subscriptions, active_connections)]
    /\ UNCHANGED <<environ, active_connections, pr_subscriptions, conn_state, received, calls>>

\* asyncio.sleep(10) returns: attempt += 1 and the loop goes on.
MonitorWake(m, outcomes) ==
    /\ monitors[m].pc = "sleep"
    /\ \E o \in outcomes :
        monitors' = [monitors EXCEPT
            ![m] = LoopHead([@ EXCEPT !.attempt = @ + 1], o,
                            pr_subscriptions, active_connections)]
    /\ UNCHANGED <<environ, codegen_client, active_connections, pr_subscriptions,
                   conn_state, received, calls>>

\* try: await websocket.send_text(message) / except Exception: log.  TRUE
\* when an exception of send_text leaves the broadcast loop.
SendErrorEscapes(ok) == FALSE

\* websocket.send_text returns (ok) or raises (caught and logged); the
\* broadcast loop then goes on to its next suspension or its end.  A peer
\* gets the message only while its connection is open.
SendReturns(m) ==
    /\ monitors[m].pc = "send"
    /\ \E ok \in BOOLEAN :
        LET mon == monitors[m]
            c == mon.target
            mon1 == [mon EXCEPT !.delivered = IF ok THEN @ \cup {c} ELSE @,
                                !.failed_to = IF ok THEN @ ELSE @ \cup {c}]
            res == IF SendErrorEscapes(ok)
                   THEN [kind |-> "raise", target |-> 0, it |-> NoIter]
                   ELSE broadcast_scan(pr_subscriptions, active_connections, mon.it,
                                       mon.project_id, mon.requirement_id)
        IN
        /\ ok => conn_state[c] = "open"
        /\ received' = IF ok
                       THEN [received EXCEPT ![c] =
                                [n |-> @.n + 1,
                                 last |-> Message(mon.project_id, mon.requirement_id,
                                                  mon.event)]]
                       ELSE received
        /\ monitors' = [monitors EXCEPT
                ![m] = AfterBreak(Settle(mon1, res), pr_subscriptions, active_connections)]
    /\ UNCHANGED <<environ, codegen_client, active_connections, pr_subscriptions, conn_state, calls>>

\* One observer and one subscription in the system, any behaviour of the
\* agent service.
Solo == {c \in Conns : \A d \in Conns : c <= d}

Next ==
    \/ \E c \in Solo : Connect(c)
    \/ \E c \in Solo : Subscribe(c, Cardinality(Solo))
    \/ \E c \in Solo : Malformed(c)
    \/ \E c \in Solo : Disconnect(c)
    \/ \E m \in 1..Len(monitors) : MonitorStart(m, PollOutcomes)
    \/ \E m \in 1..Len(monitors) : MonitorWake(m, PollOutcomes)
    \/ \E m \in 1..Len(monitors) : SendReturns(m)

Spec == Init /\ [][Next]_vars

\* Up to MaxMonitors subscriptions, for agent runs that have already ended.
NextRegistry ==
    \/ \E c \in Conns : Connect(c)
    \/ \E c \in Conns : Subscribe(c, MaxMonitors)
    \/ \E c \in Conns : Malformed(c)
    \/ \E c \in Conns : Disconnect(c)
    \/ \E m \in 1..Len(monitors) : MonitorStart(m, FinishedOutcomes(monitors[m].agent_run_id))
    \/ \E m \in 1..Len(monitors) : MonitorWake(m, FinishedOutcomes(monitors[m].agent_run_id))
    \/ \E m \in 1..Len(monitors) : SendReturns(m)

SpecRegistry == Init /\ [][NextRegistry]_vars

\* ------------------------------------------------ the extractors on their own
server == <<environ, codegen_client, active_connections, pr_subscriptions,
            conn_state, monitors, received>>

InitExtract ==
    /\ environ = [org_id |-> TRUE, token |-> TRUE]
    /\ ServerInit
    /\ ext_logs \in LogInputs
    /\ ext_pr_url = NotCalled /\ ext_plan = NotCalled
    /\ plan_request = NoRequest
    /\ cli_client = NoScript

ExtractPrUrl ==
    /\ ~ext_pr_url.called
    /\ ext_pr_url' = Returned(extract_pr_url_from_logs(ext_logs))
    /\ UNCHANGED <<server, ext_logs, ext_plan, plan_request, cli_client>>

ExtractPlan ==
    /\ ~ext_plan.called
    /\ ext_plan' = Returned(extract_plan_from_logs(ext_logs))
    /\ UNCHANGED <<server, ext_logs, ext_pr_url, plan_request, cli_client>>

NextExtract == ExtractPrUrl \/ ExtractPlan

SpecExtract == InitExtract /\ [][NextExtract]_vars

\* ------------------------------------------------------------ create_plan
\* create_plan has no await: its calls to the agent service and time.sleep
\* block.  A step below is the code between two returns of time.sleep.
\* pc: "idle" (no request yet), "polling" (at the head of the while loop,
\* waited < max_wait), "returned" (the
\* plan was returned), "error" (HTTPException 500).  requests counts the calls
\* to the agent service, failed says that one of them raised, retried that a
\* call was made after one had raised.
max_wait == 120

PlanStatuses == {"pending", "running", "completed", "failed", "None"}

PlanLogSamples ==
    { <<>>, <<LineStep>>, <<LineStep, LineMarker, LineStep, LineOk, LineSpaces, LineStep>> }

\* PlanOnException that goes on with the loop as the monitor does.
PlanOnException_absorbed(req) == [req EXCEPT !.pc = "polling"]

\* except Exception as e: raise HTTPException(status_code=500, detail=str(e))
PlanOnException(req) == [req EXCEPT !.pc = "error"]

\* One call to the agent service has been issued.
Requested(req, ok) ==
    [req EXCEPT !.requests = @ + 1, !.retried = @ \/ req.failed, !.failed = @ \/ ~ok]

\* The plan create_plan returns for the logs it was handed.
Plan(logs) == [content |-> extract_plan_from_logs(logs), status |-> "created"]

\* logs = client.get_agent_run_logs(agent_run["id"]) and the return of the
\* plan made from logs.get("logs", []).
PlanFromLogs(req, logs_ok, logs) ==
    LET r == [Requested(req, logs_ok) EXCEPT !.logs_fetched = TRUE]
        page == get_agent_run_logs(logs, default_page, default_size)
    IN
    IF ~logs_ok THEN PlanOnException(r)
    ELSE [r EXCEPT !.pc = "returned", !.logs = page, !.plan = Returned(Plan(page))]

\* PlanAfterLoop that makes the plan from the logs whatever the last status.
PlanAfterLoop_anyStatus(req, logs_ok, logs) == PlanFromLogs(req, logs_ok, logs)

\* After the while loop: the plan from the logs of a completed run, or
\* HTTPException("Failed to generate plan").
PlanAfterLoop(req, logs_ok, logs) ==
    IF req.status = "completed"
    THEN PlanFromLogs(req, logs_ok, logs)
    ELSE PlanOnException(req)

\* client.get_agent_run in the loop, and what follows up to the next sleep.
PlanPollCycle(req, fetch_ok, status, logs_ok, logs) ==
    IF ~fetch_ok THEN PlanOnException([Requested(req, FALSE) EXCEPT !.polls = @ + 1])
    ELSE LET r1 == [Requested(req, TRUE) EXCEPT !.polls = @ + 1, !.status = status] IN
         IF status = "None" THEN PlanOnException(r1)
         ELSE IF status \in {"completed", "failed"} THEN PlanAfterLoop(r1, logs_ok, logs)
         ELSE LET r2 == [r1 EXCEPT !.waited = @ + 5, !.pc = "polling"] IN
              IF r2.waited < max_wait THEN r2 ELSE PlanAfterLoop(r2, logs_ok, logs)

\* POST .../plan arrives: get_codegen_client(), then create_agent_run.
PlanRequest ==
    /\ plan_request.pc = "idle"
    /\ LET cc == get_codegen_client(codegen_client, environ) IN
       IF cc = "ValueError"
       THEN /\ plan_request' = PlanOnException(plan_request)
            /\ UNCHANGED codegen_client
       ELSE /\ codegen_client' = cc
            /\ \E created \in BOOLEAN :
                plan_request' =
                    IF ~created THEN PlanOnException(Requested(plan_request, FALSE))
                    ELSE [Requested(plan_request, TRUE) EXCEPT !.pc = "polling"]
    /\ UNCHANGED <<environ, active_connections, pr_subscriptions, conn_state, monitors,
                   received, ext_logs, ext_pr_url, ext_plan, cli_client>>

\* The next pass of the loop.
PlanPoll ==
    /\ plan_request.pc = "polling"
    /\ \E fetch_ok \in BOOLEAN, status \in PlanStatuses, logs_ok \in BOOLEAN,
          logs \in PlanLogSamples :
        plan_request' = PlanPollCycle(plan_request, fetch_ok, status, logs_ok, logs)
    /\ UNCHANGED <<server, ext_logs, ext_pr_url, ext_plan, cli_client>>

\* codegen_client.py run as a script with --org-id o and --token t:
\* CodegenClient(org_id=o, token=t), then the request of the action chosen
\* (none when the action's own argument is missing).
CliArgs == {"None", "", "cli-value"}

CliMain ==
    /\ cli_client.state = "none"
    /\ \E o \in CliArgs, t \in CliArgs, acts \in BOOLEAN :
        LET client == CodegenClient__init__(o, t, environ) IN
        cli_client' =
            [state |-> IF client.raised THEN "ValueError" ELSE "client",
             arg_org_id |-> o, arg_token |-> t,
             org_id |-> client.org_id, token |-> client.token,
             requests |-> IF ~client.raised /\ acts THEN 1 ELSE 0]
    /\ UNCHANGED <<server, ext_logs, ext_pr_url, ext_plan, plan_request>>

InitPlan ==
    /\ environ \in [org_id : BOOLEAN, token : BOOLEAN]
    /\ ServerInit
    /\ ext_logs = <<>> /\ ext_pr_url = NotCalled /\ ext_plan = NotCalled
    /\ plan_request = NoRequest
    /\ cli_client = NoScript

NextPlan == PlanRequest \/ PlanPoll \/ CliMain

SpecPlan == InitPlan /\ [][NextPlan]_vars

\* ------------------------------------------------------------------ claims
MonIds == 1..Len(monitors)

Terminated(m) == monitors[m].pc \in {"done", "crashed"}

\* Connection c sent one subscribe, is still connected and still registered.
SteadyObserver(c) ==
    /\ conn_state[c] = "open"
    /\ HasKey(pr_subscriptions, c)
    /\ Cardinality({m \in MonIds : monitors[m].owner = c}) = 1

\* C1: an observer that sent one subscribe and stays connected with it until
\* every monitor has terminated has received exactly one PrEvent; stated here
\* is its upper half, never two or more, also when other observers subscribe
\* to the same key and run.
C1_NoSecondEvent ==
    \A c \in Conns :
        (SteadyObserver(c) /\ \A m \in MonIds : Terminated(m)) => received[c].n <= 1

\* C2: a monitor task calls the broadcast at most once and fetches no status
\* after its first broadcast, whatever the other connections do meanwhile.
C2_OneBroadcastNoRepoll ==
    \A m \in MonIds : monitors[m].emitted <= 1 /\ ~monitors[m].repolled

\* The URL extract_pr_url_from_logs finds in the logs fetched in the latest
\* cycle.
UrlOf(mon) == extract_pr_url_from_logs(monitor_logs(mon.last.logs))

CompletedCycle(mon) ==
    mon.polls >= 1 /\ mon.last.fetch_ok /\ mon.last.status = "completed" /\ mon.last.logs_ok

\* C3: after k < 60 non-terminal polls and then completed with a PR URL in
\* the logs, the monitor has emitted exactly one event, created with that
\* URL, and is done or still delivering it: it does not wait to poll again
\* and emits no timeout event.
C3_CreatedOnceThenStops ==
    \A m \in MonIds :
        LET mon == monitors[m] IN
        (CompletedCycle(mon) /\ mon.cleanPrefix /\ Truthy(UrlOf(mon)))
        => /\ mon.emitted = 1
           /\ mon.event = CreatedEvent(UrlOf(mon)[1])
           /\ mon.pc \in {"send", "done"}

\* C4: a completed poll whose logs hold no PR URL makes the monitor emit one
\* failed event with "Implementation completed but no PR was created" and
\* stop: no further poll, no timeout event, no other error string.
C4_NoPrFailedOnceThenStops ==
    \A m \in MonIds :
        LET mon == monitors[m] IN
        (CompletedCycle(mon) /\ ~mon.repolled /\ ~Truthy(UrlOf(mon)))
        => /\ mon.emitted = 1
           /\ mon.event = FailedEvent(ErrNoPr)
           /\ mon.pc \in {"send", "done"}

\* C5: a poll that returns failed makes the monitor emit failed with
\* "Implementation failed" in that cycle, with no log fetch and no wait, and
\* poll no more; failed on the first poll gives the event after one fetch.
C5_FailedImmediatelyThenStops ==
    \A m \in MonIds :
        LET mon == monitors[m] IN
        (mon.polls >= 1 /\ ~mon.repolled /\ mon.last.fetch_ok /\ mon.last.status = "failed")
        => /\ mon.emitted = 1
           /\ mon.event = FailedEvent(ErrFailed)
           /\ ~mon.logs_fetched
           /\ mon.attempt = mon.polls - 1
           /\ mon.pc \in {"send", "done"}

\* C6: attempt and the number of status polls never pass 60; 60 non-terminal
\* polls end in exactly one timeout event; and the timeout event is emitted
\* only at attempt 60 of a monitor that emitted no terminal event (a
\* terminal status on the 60th poll gives the terminal event alone).
C6_TimeoutOnlyAtCeiling ==
    \A m \in MonIds :
        LET mon == monitors[m] IN
        /\ mon.attempt <= max_attempts /\ mon.polls <= max_attempts
        /\ (mon.allNonTerm /\ mon.attempt = max_attempts)
           => /\ mon.emitted = 1
              /\ mon.event = FailedEvent(ErrTimeout)
              /\ mon.pc \in {"send", "done", "crashed"}
        /\ mon.event = FailedEvent(ErrTimeout)
           => mon.attempt = max_attempts /\ mon.emitted = 1

\* A step in which monitor m ran a poll cycle.
Polled(m) == monitors'[m].polls = monitors[m].polls + 1

\* A step in which monitor m woke from asyncio.sleep.
Woke(m) == monitors[m].pc = "sleep" /\ monitors'[m] # monitors[m]

\* C7: a status-fetch error ends nothing and emits nothing: the cycle fetches
\* no logs and goes to the sleep, after which attempt is one more and, below
\* the ceiling, the status is polled again; and when all 60 polls failed the
\* monitor has emitted the timeout event and only that.
C7_FetchErrorStep ==
    \A m \in MonIds :
        /\ (Polled(m) /\ ~monitors'[m].last.fetch_ok)
           => /\ monitors'[m].pc = "sleep"
              /\ monitors'[m].emitted = monitors[m].emitted
              /\ monitors'[m].event = monitors[m].event
              /\ ~monitors'[m].logs_fetched
        /\ (Woke(m) /\ monitors[m].polls >= 1 /\ ~monitors[m].last.fetch_ok)
           => /\ monitors'[m].attempt = monitors[m].attempt + 1
              /\ (monitors'[m].attempt < max_attempts => Polled(m))

C7_AllErrorsTimeout ==
    \A m \in MonIds :
        (monitors[m].allErr /\ monitors[m].attempt = max_attempts)
        => /\ monitors[m].emitted = 1
           /\ monitors[m].event = FailedEvent(ErrTimeout)
           /\ monitors[m].polls = max_attempts

\* C7: a failed status fetch is absorbed: the cycle that fails emits nothing,
\* sleeps and counts one attempt, and a monitor whose every fetch failed ends
\* with the single timeout event after max_attempts polls.
C7_FetchErrorAbsorbed == [][C7_FetchErrorStep]_vars /\ []C7_AllErrorsTimeout

\* Witness of C7: a monitor all of whose 60 polls failed has timed out.
C7_Witness ==
    \E m \in MonIds :
        /\ monitors[m].allErr /\ monitors[m].polls = max_attempts
        /\ monitors[m].event = FailedEvent(ErrTimeout)

\* C8: a cycle whose status is pending, running, unrecognised or absent emits
\* nothing, fetches no logs and sleeps; attempt is then one more and, below
\* the ceiling, the status is polled again.  The loop is left only after a
\* completed or failed status or at attempt 60.
C8_NonTerminalStep ==
    \A m \in MonIds :
        /\ (Polled(m) /\ IsNonTerminal(monitors'[m].last))
           => /\ monitors'[m].pc = "sleep"
              /\ monitors'[m].emitted = monitors[m].emitted
              /\ monitors'[m].event = monitors[m].event
              /\ ~monitors'[m].logs_fetched
        /\ (Woke(m) /\ monitors[m].polls >= 1 /\ IsNonTerminal(monitors[m].last))
           => /\ monitors'[m].attempt = monitors[m].attempt + 1
              /\ (monitors'[m].attempt < max_attempts => Polled(m))

LeftLoop(mon) ==
    mon.polls >= 1 /\ (mon.pc = "done" \/ (mon.pc \in {"send", "crashed"} /\ ~mon.inloop))

C8_LoopEndsOnTerminalOnly ==
    \A m \in MonIds :
        LeftLoop(monitors[m])
        => \/ monitors[m].attempt = max_attempts
           \/ monitors[m].last.fetch_ok /\ monitors[m].last.status \in {"completed", "failed"}

\* C8: a non-terminal status (pending, running, unrecognised, absent) never
\* ends monitoring: such a cycle emits nothing and sleeps, and the loop is
\* left only on completed, failed or the attempt ceiling.
C8_NonTerminalNeverTerminal == [][C8_NonTerminalStep]_vars /\ []C8_LoopEndsOnTerminalOnly

\* Witness of C8: a monitor sleeping after polls that returned an
\* unrecognised and then an absent status, nothing emitted.
C8_Witness ==
    \E m \in MonIds :
        /\ monitors[m].pc = "sleep" /\ monitors[m].polls >= 2
        /\ monitors[m].allNonTerm /\ monitors[m].last.status = "None"
        /\ monitors[m].emitted = 0

\* The connections monitor m's latest broadcast called send_text for.
Reached(mon) == mon.delivered \cup mon.failed_to

BroadcastOver(mon) == mon.emitted >= 1 /\ mon.pc # "send"

\* C9: a broadcast to a key sends the event to every connection registered
\* under that key: once it is over, each connection that was registered
\* under the key from its start to its end has been sent the event.
C9_BroadcastReachesSubscribers ==
    \A m \in MonIds :
        BroadcastOver(monitors[m]) => monitors[m].stable \subseteq Reached(monitors[m])

\* C10: when a send to one matching observer failed, the other matching
\* observers are still sent the event and the monitor goes on as after a
\* successful delivery: it does not go back to waiting for another poll.
C10_SendFailureIsolated ==
    \A m \in MonIds :
        (BroadcastOver(monitors[m]) /\ monitors[m].failed_to # {})
        => /\ monitors[m].stable \subseteq Reached(monitors[m])
           /\ monitors[m].pc # "sleep"

\* The entries the registry holds for connection c.
EntriesOf(d, c) == {i \in 1..Len(d) : d[i].cid = c}

\* The tasks created by connection c's subscribe messages.
OwnedBy(c) == {m \in MonIds : monitors[m].owner = c}

\* The task of connection c's most recent subscribe.
LastOwned(c) == CHOOSE m \in OwnedBy(c) : \A k \in OwnedBy(c) : k <= m

C11_RegistryLatest ==
    \A c \in Conns :
        /\ Cardinality(EntriesOf(pr_subscriptions, c)) <= 1
        /\ HasKey(pr_subscriptions, c)
           => /\ OwnedBy(c) # {}
              /\ pr_subscriptions[IndexOf(pr_subscriptions, c)]
                    = Entry(c, monitors[LastOwned(c)].project_id,
                            monitors[LastOwned(c)].requirement_id,
                            monitors[LastOwned(c)].agent_run_id)

\* A step of a websocket handler that stays in its receive loop and changed
\* the registry or the set of tasks: a subscribe message.
SubscribeStep ==
    /\ conn_state' = conn_state
    /\ pr_subscriptions' # pr_subscriptions \/ Len(monitors') # Len(monitors)

C11_SubscribeStep ==
    SubscribeStep =>
        /\ Len(monitors') = Len(monitors) + 1
        /\ LET new == monitors'[Len(monitors')]
               c == new.owner
           IN  /\ c \in Conns
               /\ HasKey(pr_subscriptions', c)
               /\ new = NewMonitor(pr_subscriptions'[IndexOf(pr_subscriptions', c)].agent_run_id,
                                   pr_subscriptions'[IndexOf(pr_subscriptions', c)].project_id,
                                   pr_subscriptions'[IndexOf(pr_subscriptions', c)].requirement_id,
                                   c)
               /\ \A d \in Conns \ {c} :
                    /\ HasKey(pr_subscriptions', d) <=> HasKey(pr_subscriptions, d)
                    /\ HasKey(pr_subscriptions, d)
                       => pr_subscriptions'[IndexOf(pr_subscriptions', d)]
                            = pr_subscriptions[IndexOf(pr_subscriptions, d)]
        /\ \A m \in MonIds :
              [monitors'[m] EXCEPT !.stable = monitors[m].stable] = monitors[m]

\* C11: the registry holds at most one subscription per connection, the one
\* of that connection's most recent subscribe (key and run); a subscribe
\* creates exactly one new task, for its run and key, changes no other
\* connection's subscription and leaves every earlier task where it was.
C11_OneSubscriptionPerConnection == [][C11_SubscribeStep]_vars /\ []C11_RegistryLatest

\* Witness of C11: a connection that subscribed twice, to different keys, is
\* registered once, under the later key.
C11_Witness ==
    \E c \in Conns :
        /\ Cardinality(OwnedBy(c)) = 2
        /\ \E m \in OwnedBy(c) : monitors[m].project_id # monitors[LastOwned(c)].project_id
        /\ Cardinality(EntriesOf(pr_subscriptions, c)) = 1

\* A step in which connection c's handler ran manager.disconnect.
DisconnectStep(c) == conn_state[c] = "open" /\ conn_state'[c] = "closed"

\* The disconnect of c removes c's entry and no other, and touches no task.
C12_DisconnectStep ==
    \A c \in Conns :
        DisconnectStep(c) =>
            /\ ~HasKey(pr_subscriptions', c)
            /\ \A d \in Conns \ {c} :
                /\ HasKey(pr_subscriptions', d) <=> HasKey(pr_subscriptions, d)
                /\ HasKey(pr_subscriptions, d)
                   => pr_subscriptions'[IndexOf(pr_subscriptions', d)]
                        = pr_subscriptions[IndexOf(pr_subscriptions, d)]
            /\ \A m \in MonIds :
                  [monitors'[m] EXCEPT !.stable = monitors[m].stable] = monitors[m]

\* Nothing is delivered to a connection after its disconnect.
C12_NoDeliveryAfterRemoval ==
    \A c \in Conns : conn_state[c] = "closed" => received'[c] = received[c]

\* The agent runs have ended, so a task that is let alone fetches the status
\* once, broadcasts once and returns (or ends at once for want of a client).
\* The task of a connection that was removed ends the same way.
C12_MonitorUnaffected ==
    \A m \in MonIds :
        (Terminated(m) /\ conn_state[monitors[m].owner] = "closed")
        => \/ monitors[m].pc = "crashed" /\ monitors[m].polls = 0
           \/ /\ monitors[m].pc = "done"
              /\ monitors[m].polls = 1
              /\ monitors[m].emitted = 1

\* C12: removing a connection's subscription removes only that connection's
\* registry entry; the other subscriptions are unchanged, the task the
\* connection created runs to the terminal state it would have reached
\* anyway, and nothing is delivered to the removed connection afterwards.
C12_RemovalIsLocal ==
    /\ [][C12_DisconnectStep /\ C12_NoDeliveryAfterRemoval]_vars
    /\ []C12_MonitorUnaffected

\* Task m can take no step until send_text to its target returns.
WaitingOnSend(m) == monitors[m].pc = "send"

\* C13: broadcast is fire-and-forget: a send that has not returned holds up
\* neither the sends to the other matching observers nor the monitor, so
\* whenever a send is outstanding every other subscriber of the key has been
\* sent the event already and the task itself is not waiting for the send.
C13_PendingSendBlocksNothing ==
    \A m \in MonIds :
        monitors[m].target # 0
        => /\ monitors[m].stable \ {monitors[m].target} \subseteq Reached(monitors[m])
           /\ ~WaitingOnSend(m)

\* The websocket handler of connection c has returned or raised.
HandlerEnded(c) == conn_state[c] \in {"closed", "crashed"}

C14_EndedIsUnregistered ==
    \A c \in Conns :
        HandlerEnded(c) => ~HasKey(pr_subscriptions, c) /\ c \notin active_connections

\* A step in which task m starts a send_text to connection c.
SendStarts(m, c) ==
    /\ monitors'[m].pc = "send" /\ monitors'[m].target = c
    /\ monitors'[m] # monitors[m]

C14_NoSendToEnded ==
    \A c \in Conns, m \in MonIds : HandlerEnded(c) => ~SendStarts(m, c)

\* C14: once a connection's handler has ended, by a peer disconnect or by an
\* inbound message that cannot be parsed, the registry holds no subscription
\* for the connection, the connection is not among the active connections,
\* and no broadcast starts a send to it.
C14_SubscriptionEndsWithHandler ==
    []C14_EndedIsUnregistered /\ [][C14_NoSendToEnded]_vars

\* ---- what the claims call a pull-request line, said without the scanner
HasToken(line, phrase) == \E i \in 1..Len(line) : lower(line[i]) = phrase

AllIn(u, a, b, S) == \A i \in a..b : u[i] \in S

SlashFree(u, a, b) == \A i \in a..b : NonSlash(u[i])

\* u spells https://github.com/<owner>/<repo>/pull/<digits>: owner is
\* u[3..a], repo is u[a+2..b], the digits are u[b+4..Len(u)].
IsPrUrl(u) ==
    /\ Len(u) >= 9 /\ u[1] = GH /\ u[2] = "/"
    /\ \E a \in 3..Len(u), b \in 3..Len(u) :
        /\ a + 2 <= b /\ b + 4 <= Len(u)
        /\ SlashFree(u, 3, a) /\ u[a + 1] = "/"
        /\ SlashFree(u, a + 2, b) /\ u[b + 1] = "/"
        /\ u[b + 2] = "pull" /\ u[b + 3] = "/"
        /\ AllIn(u, b + 4, Len(u), Digits)

\* The places (start, end) of the pull-request URLs in a line.
UrlPlaces(line) ==
    {pl \in (1..Len(line)) \X (1..Len(line)) :
        pl[1] <= pl[2] /\ IsPrUrl(SubSeq(line, pl[1], pl[2]))}

Qualifies(line) == HasToken(line, "pull request") /\ UrlPlaces(line) # {}

\* C15: extract_pr_url_from_logs returns None (never an empty string) when no
\* line both contains "pull request" in any case and contains a URL of the
\* form https://github.com/<owner>/<repo>/pull/<digits>; otherwise it returns
\* the URL of the first such line: its leftmost URL with all its digits, a
\* part of the line and not the line.
C15_FirstQualifyingUrl ==
    ext_pr_url.called =>
        LET q == {i \in 1..Len(ext_logs) : Qualifies(ext_logs[i])}
            res == ext_pr_url.value
        IN  IF q = {} THEN res = <<>>
            ELSE LET f == CHOOSE i \in q : \A j \in q : i <= j
                     line == ext_logs[f]
                 IN  /\ Len(res) = 1 /\ res[1] # <<>>
                     /\ \E pl \in UrlPlaces(line) :
                          /\ res[1] = SubSeq(line, pl[1], pl[2])
                          /\ \A o \in UrlPlaces(line) :
                                pl[1] <= o[1] /\ (o[1] = pl[1] => o[2] <= pl[2])

\* Witness of C15: the URL comes from the third line, after a line with the
\* marker alone and a line with a URL alone, and is shorter than its line.
C15_Witness ==
    /\ ext_pr_url.called /\ Len(ext_logs) = 3
    /\ ~Qualifies(ext_logs[1]) /\ HasToken(ext_logs[1], "pull request")
    /\ ~Qualifies(ext_logs[2]) /\ UrlPlaces(ext_logs[2]) # {}
    /\ Qualifies(ext_logs[3])
    /\ ext_pr_url.value # <<>> /\ Len(ext_pr_url.value[1]) < Len(ext_logs[3])

\* ---- what the claims call a plan section, said without the scanner
IsBlank(line) == \A i \in 1..Len(line) : line[i] \in Whitespace

IsMarker(line) == HasToken(line, "implementation plan")

\* logs is: a prefix without marker, the marker at k, n non-blank lines, a
\* blank line, any suffix.
IsSection(logs, k, n) ==
    /\ k \in 1..Len(logs) /\ k + n + 1 <= Len(logs)
    /\ IsMarker(logs[k])
    /\ \A i \in 1..(k - 1) : ~IsMarker(logs[i])
    /\ \A i \in (k + 1)..(k + n) : ~IsBlank(logs[i])
    /\ IsBlank(logs[k + n + 1])

\* C16: for logs made of any prefix, the first line containing
\* "implementation plan" (any case), N >= 0 non-blank lines of any content, a
\* blank line and any suffix, extract_plan_from_logs returns exactly the N
\* lines joined by newlines, without the marker line, the blank line or
\* anything after it.
C16_SectionReturnedVerbatim ==
    ext_plan.called =>
        \A k \in 1..Len(ext_logs), n \in 0..Len(ext_logs) :
            IsSection(ext_logs, k, n)
            => ext_plan.value = join("\n", SubSeq(ext_logs, k + 1, k + n))

\* C16 as amended: the same with N >= 1 and no "implementation plan" in the
\* N lines.  (With N = 0, or when every one of the N lines carries the
\* phrase, nothing is accumulated and the template is returned; a line that
\* carries the phrase is never accumulated.)
C16_SectionOfPlainLinesReturned ==
    ext_plan.called =>
        \A k \in 1..Len(ext_logs), n \in 1..Len(ext_logs) :
            (IsSection(ext_logs, k, n) /\ \A i \in (k + 1)..(k + n) : ~IsMarker(ext_logs[i]))
            => ext_plan.value = join("\n", SubSeq(ext_logs, k + 1, k + n))

\* Witness of C16: a prefix, the marker, a section, a blank line made of
\* whitespace and a non-blank suffix; the section alone is returned.
C16_Witness ==
    /\ ext_plan.called
    /\ \E k \in 2..Len(ext_logs), n \in 1..Len(ext_logs) :
        /\ IsSection(ext_logs, k, n)
        /\ \A i \in (k + 1)..(k + n) : ~IsMarker(ext_logs[i])
        /\ ~IsBlank(ext_logs[1])
        /\ k + n + 1 < Len(ext_logs)
        /\ ext_logs[k + n + 1] # <<>>
        /\ ~IsBlank(ext_logs[Len(ext_logs)])
        /\ ext_plan.value = join("\n", SubSeq(ext_logs, k + 1, k + n))

\* C17: when no line of the logs contains "implementation plan" in any case
\* (the empty sequence included), extract_plan_from_logs returns the default
\* template, whatever the lines hold.
C17_NoMarkerGivesTemplate ==
    (ext_plan.called /\ \A i \in 1..Len(ext_logs) : ~IsMarker(ext_logs[i]))
    => ext_plan.value = DefaultPlan

\* Witness of C17: logs with text lines and blank lines in them and no
\* marker, answered by the template.
C17_Witness ==
    /\ ext_plan.called /\ Len(ext_logs) >= 3
    /\ \A i \in 1..Len(ext_logs) : ~IsMarker(ext_logs[i])
    /\ \E i \in 1..Len(ext_logs) : IsBlank(ext_logs[i])
    /\ \E i \in 1..Len(ext_logs) : ~IsBlank(ext_logs[i])
    /\ ext_plan.value = DefaultPlan

\* C18: in create_plan a transport failure of create_agent_run, of any
\* get_agent_run or of get_agent_run_logs is neither absorbed nor retried:
\* the request has ended with the error outcome, no call followed the failed
\* one and no plan is returned.
C18_PlanFailurePropagates ==
    plan_request.failed
    => /\ plan_request.pc = "error"
       /\ ~plan_request.retried
       /\ ~plan_request.plan.called

\* Witness of C18: after polls that returned a non-terminal status and then
\* completed, the log fetch failed and the request ended in the error.
C18_Witness ==
    /\ plan_request.failed /\ plan_request.pc = "error"
    /\ plan_request.waited >= 10 /\ plan_request.status = "completed"
    /\ plan_request.requests = plan_request.waited \div 5 + 3

\* The value is absent: not passed (None or empty) and not in the environment.
Absent(arg, in_env) == arg \in {"None", ""} /\ ~in_env

\* The script's construction was attempted with a value absent.
CliAbsent ==
    \/ Absent(cli_client.arg_org_id, environ.org_id)
    \/ Absent(cli_client.arg_token, environ.token)

\* C19: constructing the client with the organisation id or the token absent
\* fails with ValueError, leaves no client and issues no request, in the
\* script, in create_plan and for the module's global client; a client that
\* exists has both values set.
C19_NoClientWithoutCredentials ==
    /\ (cli_client.state # "none" /\ CliAbsent)
       => cli_client.state = "ValueError" /\ cli_client.requests = 0
    /\ cli_client.state = "client"
       => ~NotStr(cli_client.org_id) /\ ~NotStr(cli_client.token)
    /\ (plan_request.pc # "idle" /\ (~environ.org_id \/ ~environ.token))
       => /\ plan_request.pc = "error" /\ plan_request.requests = 0
          /\ codegen_client = "None"
    /\ codegen_client = "client" => environ.org_id /\ environ.token

\* Witness of C19: the organisation id was passed and the token is nowhere,
\* and the construction failed, in the script and in create_plan.
C19_Witness ==
    /\ cli_client.state = "ValueError" /\ cli_client.arg_org_id = "cli-value"
    /\ cli_client.arg_token = "" /\ environ.org_id /\ ~environ.token
    /\ plan_request.pc = "error" /\ plan_request.requests = 0

\* The keys and values the claim allows in a PrEvent.
WellFormedEvent(ev) ==
    /\ ev.status \in {"created", "failed"}
    /\ ev.status = "created"
       => /\ "prUrl" \in DOMAIN ev /\ "error" \notin DOMAIN ev
          /\ IsPrUrl(ev.prUrl)
    /\ ev.status = "failed"
       => /\ "error" \in DOMAIN ev /\ "prUrl" \notin DOMAIN ev
          /\ ev.error \in {"Implementation failed",
                           "Implementation completed but no PR was created",
                           "Monitoring timeout - PR status unknown"}

\* C20: every event a monitor emits, and every message an observer gets, has
\* status created or failed; created comes with a prUrl and no error, failed
\* with no prUrl and one of the three error strings.
C20_EventVocabulary ==
    /\ \A m \in MonIds : monitors[m].emitted >= 1 => WellFormedEvent(monitors[m].event)
    /\ \A c \in Conns : received[c].n >= 1 => WellFormedEvent(received[c].last)

\* Witness of C20: a monitor that polled more than once has emitted the
\* created event and returned, and the observer has got it.
C20_Witness ==
    \E c \in Conns, m \in MonIds :
        /\ monitors[m].pc = "done" /\ monitors[m].polls >= 2
        /\ monitors[m].event.status = "created"
        /\ received[c].n = 1 /\ received[c].last.status = "created"
        /\ received[c].last.prUrl = monitors[m].event.prUrl

\* The terminal states of the claim, read off the event a task has emitted.
Succeeded(mon) == mon.emitted >= 1 /\ mon.event.status = "created"

Failed(mon) ==
    mon.emitted >= 1 /\ mon.event.status = "failed" /\ mon.event.error # ErrTimeout

TimedOut(mon) ==
    mon.emitted >= 1 /\ mon.event.status = "failed" /\ mon.event.error = ErrTimeout

\* C21: every monitor terminates in Succeeded, Failed or TimedOut after at
\* most 60 poll cycles, having broadcast its event.  Stated here is what a
\* finite run can refute: a task that has ended has made at most 60 polls and
\* has called the broadcast for a created, failed or timeout event; no task
\* has ended without one.
C21_NoMonitorEndsSilently ==
    \A m \in MonIds :
        Terminated(m)
        => /\ monitors[m].polls <= max_attempts
           /\ Succeeded(monitors[m]) \/ Failed(monitors[m]) \/ TimedOut(monitors[m])

\* The lines of a run's log that are on its first page, and their places.
FirstPageQualifying(run_log) ==
    {i \in 1..Len(run_log) : i <= default_size /\ Qualifies(run_log[i])}

\* C22: the monitor asks for page 1 of the logs and for no other page, and
\* its event for a completed run is decided by that page alone: created when
\* a line of the first page qualifies, and failed with "Implementation
\* completed but no PR was created" otherwise, also when a pull-request line
\* stands on a later page.
C22_FirstPageOnly ==
    \A m \in MonIds :
        LET mon == monitors[m] IN
        /\ mon.pages \subseteq {default_page}
        /\ (CompletedCycle(mon) /\ mon.inloop)
           => IF FirstPageQualifying(mon.last.logs) = {}
              THEN mon.event.status = "failed" /\ mon.event.error = ErrNoPr
              ELSE mon.event.status = "created"

\* Witness of C22: the only pull-request line of the log is on page 2 and the
\* event is the failed one.
C22_Witness ==
    \E m \in MonIds :
        LET mon == monitors[m] IN
        /\ CompletedCycle(mon) /\ mon.inloop /\ mon.pages = {default_page}
        /\ \E i \in 1..Len(mon.last.logs) : i > default_size /\ Qualifies(mon.last.logs[i])
        /\ FirstPageQualifying(mon.last.logs) = {}
        /\ mon.event.status = "failed" /\ mon.event.error = ErrNoPr

\* The latest cycle of the task found the run completed and its log fetch
\* raised.
LogFetchFailed(mon) ==
    mon.polls >= 1 /\ mon.last.fetch_ok /\ mon.last.status = "completed" /\ ~mon.last.logs_ok

C23_LogFetchStep ==
    \A m \in MonIds :
        /\ Polled(m)
           => (monitors'[m].logs_fetched
               <=> monitors'[m].last.fetch_ok /\ monitors'[m].last.status = "completed")
        /\ (Polled(m) /\ LogFetchFailed(monitors'[m]))
           => /\ monitors'[m].pc = "sleep"
              /\ monitors'[m].emitted = monitors[m].emitted
              /\ monitors'[m].event = monitors[m].event
        /\ (Woke(m) /\ LogFetchFailed(monitors[m]))
           => /\ monitors'[m].attempt = monitors[m].attempt + 1
              /\ monitors'[m].attempt < max_attempts
                 => /\ Polled(m)
                    /\ CompletedCycle(monitors'[m])
                       => /\ monitors'[m].logs_fetched
                          /\ monitors'[m].emitted = monitors[m].emitted + 1
                          /\ monitors'[m].event.status \in {"created", "failed"}
                          /\ monitors'[m].event.status = "created"
                             <=> FirstPageQualifying(monitors'[m].last.logs) # {}

NamesOtherRun(mon, c) ==
    /\ HasKey(pr_subscriptions, c)
    /\ pr_subscriptions[IndexOf(pr_subscriptions, c)].agent_run_id # mon.agent_run_id

\* C24: routing ignores the run: once a broadcast of the task of run R2 is
\* over, every connection that was registered under the task's key from the
\* broadcast's start to its end has been sent the event, a connection whose
\* subscription names another run included; and a message received carries
\* the key and no run identifier.
C24_RoutedByKeyAlone ==
    /\ \A m \in MonIds : \A c \in Conns :
           (BroadcastOver(monitors[m]) /\ c \in monitors[m].stable
            /\ NamesOtherRun(monitors[m], c))
           => c \in Reached(monitors[m])
    /\ \A c \in Conns :
           received[c].n >= 1
           => /\ {"projectId", "requirementId"} \subseteq DOMAIN received[c].last
              /\ DOMAIN received[c].last \cap {"agent_run_id", "agentRunId"} = {}

\* The statuses that end the loop of create_plan.
PlanTerminal == {"completed", "failed"}

C25_PlanStep ==
    /\ plan_request'.polls \in {plan_request.polls, plan_request.polls + 1}
    /\ plan_request.status \in PlanTerminal => plan_request'.polls = plan_request.polls
    /\ plan_request'.polls = plan_request.polls + 1 => plan_request.waited < max_wait

C25_PlanOutcome ==
    /\ plan_request.polls <= 24
    /\ plan_request.pc = "returned"
       => /\ plan_request.status = "completed"
          /\ plan_request.logs_fetched
          /\ plan_request.plan = Returned(Plan(plan_request.logs))
    /\ plan_request.logs_fetched => plan_request.status = "completed"
    /\ (plan_request.pc # "polling"
        /\ \/ plan_request.status = "failed"
           \/ plan_request.polls >= 1 /\ plan_request.status \notin PlanTerminal
              /\ plan_request.waited >= max_wait)
       => plan_request.pc = "error" /\ ~plan_request.logs_fetched /\ ~plan_request.plan.called

\* C25: create_plan polls the status at most 24 times, each poll with less
\* than the 120 s budget waited, and not again after a completed or failed
\* status; it returns a plan, with status created and the content
\* extract_plan_from_logs gives for the logs fetched, only when the last
\* status seen is completed, and ends in an error with no log fetch when the
\* run failed or the budget ran out on a non-terminal status.
C25_PlanPolling == []C25_PlanOutcome /\ [][C25_PlanStep]_vars

\* Witness of C25: the 24th poll still found the run running, and the request
\* ended in the error without a log fetch; no call to the service had failed.
C25_Witness ==
    /\ plan_request.pc = "error" /\ plan_request.polls = 24
    /\ plan_request.waited = max_wait /\ plan_request.status = "running"
    /\ ~plan_request.failed /\ ~plan_request.logs_fetched

====
